---- MODULE Spec2Model ----
(***************************************************************************)
(* OneLight: the device discovery and control engine                       *)
(* (src/src/api/device_manager.py) over the device registry                *)
(* (src/src/database/database.py), as driven by the request handlers of    *)
(* src/src/app.py, with the login workflow of src/src/utils.py and the     *)
(* legacy plug routes of src/src/api/smart_device_manager.py.              *)
(*                                                                         *)
(* Python values: None and every other falsy string are the one value      *)
(* None; a registry row is a record, a registry is the sequence of its     *)
(* rows and a row's id is its position (sqlite's lastrowid; the core never *)
(* deletes a row).  A lookup returns the id of the row found, 0 for None.  *)
(* The device name is carried nowhere: no operation reads it.              *)
(***************************************************************************)
EXTENDS Integers, Sequences, FiniteSets, TLC

VARIABLES
    devices,        \* the devices table
    last_provision, \* what the last provision call returned (0: no call yet)
    disc,           \* the discover call in flight: its position and its scans
    disc_out,       \* what the discover call that just ended handed its caller
    adapters,       \* the KasaAdapter objects created so far, in creation order
    adapter_cache,  \* DeviceManager._adapter_cache: device id -> adapter
    tasks,          \* the control and state calls in flight, one per task
    relay,          \* the relay of the physical plug at each address
    seq_on,         \* the device whose turn_on returned last, with no call since
    login,          \* the users table and the login request being served
    web             \* the switch requests the web layer is serving

ctl == <<adapters, adapter_cache, tasks, relay, seq_on, login, web>>
vars == <<devices, last_provision, disc, disc_out, adapters, adapter_cache,
          tasks, relay, seq_on, login, web>>

---------------------------------------------------------------------------
(* Bounds and input sets *)

MaxDevices == 2
MaxPlugs == 1

None == "None"
Addrs == {"10.0.0.1", "10.0.0.2"}
Macs == {"aa:01", "aa:02"}
Models == {"HS100"}
Owners == {7}
NoTime == 0
Tasks == {"t1", "t2"}
\* the one task of the specifications in which calls are made one after
\* the other
SerialTasks == {"t1"}
Ops == {"turn_on", "turn_off", "get_state"}
Switches == {"turn_on", "turn_off"}
\* the timestamps datetime.utcnow() can give
Times == {1, 2}

\* the link-layer identifier of the plug that answers at an address
PhysMac(ip) == IF ip = "10.0.0.1" THEN "aa:01" ELSE "aa:02"

Truthy(v) == v # None

---------------------------------------------------------------------------
(* The registry: OneLightDB *)

NewRow(model, owner_id, ip, mac, provisioned) ==
    [ip |-> ip, mac |-> mac, model |-> model, owner_id |-> owner_id,
     provisioned |-> provisioned, status |-> None, last_seen |-> NoTime]

\* the row of a rejected INSERT kept
add_device_row_kept(db, model, owner_id, ip, mac, provisioned, ok) ==
    [db |-> Append(db, NewRow(model, owner_id, ip, mac, provisioned)),
     id |-> IF ok THEN Len(db) + 1 ELSE -1]

\* ok = FALSE: the INSERT raises, which add_device turns into -1
add_device(db, model, owner_id, ip, mac, provisioned, ok) ==
    IF ok
    THEN [db |-> Append(db, NewRow(model, owner_id, ip, mac, provisioned)),
          id |-> Len(db) + 1]
    ELSE [db |-> db, id |-> -1]

FirstId(S) == IF S = {} THEN 0 ELSE CHOOSE i \in S : \A j \in S : i <= j

get_device_by_id(db, device_id) ==
    IF device_id \in DOMAIN db THEN device_id ELSE 0

get_device_by_ip(db, ip) ==
    FirstId({i \in DOMAIN db : db[i].ip # None /\ db[i].ip = ip})

get_device_by_mac(db, mac) ==
    FirstId({i \in DOMAIN db : db[i].mac # None /\ db[i].mac = mac})

\* the columns update_device_info lets a caller set
Allowed == {"name", "model", "ip", "mac", "status", "provisioned"}

\* UPDATE devices SET <the allowed fields> WHERE id = device_id
update_device_info(db, device_id, fields) ==
    LET updates == DOMAIN fields \cap Allowed
    IN  IF updates = {} \/ device_id \notin DOMAIN db THEN db
        ELSE [db EXCEPT ![device_id] =
                 [k \in DOMAIN @ |-> IF k \in updates THEN fields[k] ELSE @[k]]]

update_device_status(db, device_id, status, last_seen) ==
    IF last_seen # NoTime
    THEN update_device_info(db, device_id, [status |-> status, last_seen |-> last_seen])
    ELSE update_device_info(db, device_id, [status |-> status])

---------------------------------------------------------------------------
(* Network target resolver *)

\* the host's interfaces as netifaces reports them
NetEnvs ==
    [netifaces : BOOLEAN, gateway_len : {0, 2, 3, 4}, ipv4 : BOOLEAN,
     broadcast : BOOLEAN]

\* the broadcast address of some other interface used when there is no
\* default route
get_broadcast_target_any_interface(env) ==
    IF ~env.netifaces THEN None
    ELSE IF env.gateway_len \notin {2, 3} THEN "bcast"
    ELSE IF ~env.ipv4 THEN None
    ELSE IF env.broadcast THEN "bcast"
    ELSE None

get_broadcast_target(env) ==
    IF ~env.netifaces THEN None
    ELSE IF env.gateway_len = 0 THEN None        \* KeyError on "default"
    ELSE IF env.gateway_len \notin {2, 3} THEN None  \* ifaddresses("") raises
    ELSE IF ~env.ipv4 THEN None                  \* KeyError on AF_INET
    ELSE IF env.broadcast THEN "bcast"
    ELSE None

---------------------------------------------------------------------------
(* Discovery *)

\* What one device answers to a scan.  kind "dict": a mapping with the flat
\* fields mac/model (None: absent) and sys_info ("absent", "map" with
\* sys_mac/sys_model, or "bad": not a mapping).  kind "obj": a device object
\* of which the first `attrs` of the reads mac, model, config succeed.
Response(ip, kind, mac, model, sys, sys_mac, sys_model, attrs) ==
    [ip |-> ip, kind |-> kind, mac |-> mac, model |-> model, sys |-> sys,
     sys_mac |-> sys_mac, sys_model |-> sys_model, attrs |-> attrs]

ResponsesOf(ip) ==
    { Response(ip, "dict", PhysMac(ip), "HS100", "absent", None, None, 0),
      Response(ip, "dict", None, None, "map", PhysMac(ip), "HS100", 0),
      Response(ip, "dict", PhysMac(ip), None, "map", "aa:00", "HS100", 0),
      Response(ip, "dict", None, None, "absent", None, None, 0),
      Response(ip, "dict", None, None, "bad", None, None, 0),
      Response(ip, "obj", PhysMac(ip), "HS100", "absent", None, None, 3),
      Response(ip, "obj", PhysMac(ip), "HS100", "absent", None, None, 0) }

\* the mappings a scan can return: one response per answering address, in
\* arrival order
ScanResults ==
    {<<>>}
    \cup {<<r>> : r \in UNION {ResponsesOf(ip) : ip \in Addrs}}
    \cup {<<r1, r2>> : r1 \in ResponsesOf("10.0.0.1"), r2 \in ResponsesOf("10.0.0.2")}
    \cup {<<r2, r1>> : r1 \in ResponsesOf("10.0.0.1"), r2 \in ResponsesOf("10.0.0.2")}

\* the nested system-info field taken first
FlatOrNested_nested_first(flat, sys, nested) ==
    IF sys = "bad" THEN [raised |-> TRUE, v |-> None]
    ELSE IF sys = "map" /\ Truthy(nested) THEN [raised |-> FALSE, v |-> nested]
    ELSE [raised |-> FALSE, v |-> flat]

\* info.get(key) or info.get("sys_info", {}).get(key)
FlatOrNested(flat, sys, nested) ==
    IF Truthy(flat) THEN [raised |-> FALSE, v |-> flat]
    ELSE IF sys = "absent" THEN [raised |-> FALSE, v |-> None]
    ELSE IF sys = "bad" THEN [raised |-> TRUE, v |-> None]
    ELSE [raised |-> FALSE, v |-> nested]

Normalize(info) ==
    IF info.kind = "dict"
    THEN LET m == FlatOrNested(info.mac, info.sys, info.sys_mac)
             d == FlatOrNested(info.model, info.sys, info.sys_model)
         IN  [raised |-> m.raised \/ d.raised, mac |-> m.v, model |-> d.v,
              raw |-> "info"]
    ELSE [raised |-> FALSE,
          mac |-> IF info.attrs >= 1 THEN info.mac ELSE None,
          model |-> IF info.attrs >= 2 THEN info.model ELSE None,
          raw |-> IF info.attrs >= 3 THEN "config" ELSE "info"]

existing_by_ip(db, ip) == IF Truthy(ip) THEN get_device_by_ip(db, ip) ELSE 0

\* the lookup by hardware id left out
existing_by_mac_skipped(db, mac) == 0

existing_by_mac(db, mac) == IF Truthy(mac) THEN get_device_by_mac(db, mac) ELSE 0

\* The loop over results.items(), from item k on.  fault: the item whose
\* registry lookup raises (0: none does).
RECURSIVE DiscoverLoop(_, _, _, _, _)
DiscoverLoop(results, db, fault, k, discovered) ==
    IF k > Len(results) THEN [discovered |-> discovered, exc |-> FALSE]
    ELSE LET info == results[k]
             n == Normalize(info)
         IN  IF n.raised \/ fault = k
             THEN [discovered |-> discovered, exc |-> TRUE]
             ELSE IF existing_by_ip(db, info.ip) # 0 \/ existing_by_mac(db, n.mac) # 0
             THEN DiscoverLoop(results, db, fault, k + 1, discovered)
             ELSE DiscoverLoop(results, db, fault, k + 1,
                      Append(discovered, [ip |-> info.ip, mac |-> n.mac,
                                          model |-> n.model, raw |-> n.raw]))

\* The statements after the try block: discovered[0] is read for the debug
\* log before the list is returned.
DiscoverFinish(discovered, exc, raw) ==
    IF discovered = <<>>
    THEN [kind |-> "raised", error |-> "IndexError", value |-> <<>>, exc |-> exc,
          raw |-> raw]
    ELSE [kind |-> "returned", error |-> None, value |-> discovered, exc |-> exc,
          raw |-> raw]

NoOutcome ==
    [kind |-> "none", error |-> None, value |-> <<>>, exc |-> FALSE, raw |-> <<>>]

\* first: the number of responses the first scan returned (-1: it has not
\* returned); env: what the resolver found on the host, kept until the first
\* scan is sent
DiscIdle == [pc |-> "idle", target |-> None, scans |-> <<>>, first |-> -1, env |-> {}]

\* No call is at the point of handing its result to its caller.  A call's
\* last statements and its caller's next ones run without suspension, so
\* nothing else happens while a result is held for inspection.
Quiet == disc.pc \notin {"resolved", "done"} /\ \A t \in Tasks : tasks[t].pc # "done"

\* devices_scan calls discover, which asks the resolver for the target
DiscoverStart(env) ==
    /\ disc.pc = "idle"
    /\ disc' = [pc |-> "resolved", target |-> get_broadcast_target(env),
                scans |-> <<>>, first |-> -1, env |-> {env}]
    /\ disc_out' = NoOutcome
    /\ UNCHANGED <<devices, last_provision, ctl>>

\* with the resolver's answer the first scan is sent, towards the target or
\* without one
DiscoverSend ==
    /\ disc.pc = "resolved"
    /\ disc' = [disc EXCEPT !.pc = "scan1", !.env = {},
                            !.scans = <<IF Truthy(disc.target) THEN "target"
                                        ELSE "no_target">>]
    /\ UNCHANGED <<disc_out, devices, last_provision, ctl>>

\* the first scan ends: it raised, or returned the mapping `results`
DiscoverScanned(raised, results, fault) ==
    /\ disc.pc = "scan1"
    /\ fault \in 0..Len(results)
    /\ IF raised
       THEN /\ disc' = [disc EXCEPT !.pc = "done"]
            /\ disc_out' = DiscoverFinish(<<>>, TRUE, <<>>)
       ELSE IF Len(results) = 0
       THEN /\ disc' = [disc EXCEPT !.pc = "scan2", !.scans = Append(@, "default"),
                                     !.first = 0]
            /\ disc_out' = disc_out
       ELSE /\ disc' = [disc EXCEPT !.pc = "done", !.first = Len(results)]
            /\ LET r == DiscoverLoop(results, devices, fault, 1, <<>>)
               IN  disc_out' = DiscoverFinish(r.discovered, r.exc, results)
    /\ UNCHANGED <<devices, last_provision, ctl>>

\* the retry's responses dropped, the empty first mapping processed instead
DiscoverRetried_discarded(raised, results, fault) ==
    /\ disc.pc = "scan2"
    /\ fault \in 0..Len(results)
    /\ disc' = [disc EXCEPT !.pc = "done"]
    /\ disc_out' = DiscoverFinish(<<>>, raised, results)
    /\ UNCHANGED <<devices, last_provision, ctl>>

\* an empty retry retried again
DiscoverRetried_again(raised, results, fault) ==
    /\ disc.pc = "scan2"
    /\ fault \in 0..Len(results)
    /\ IF ~raised /\ Len(results) = 0
       THEN /\ disc' = [disc EXCEPT !.scans = Append(@, "default")]
            /\ disc_out' = disc_out
       ELSE /\ disc' = [disc EXCEPT !.pc = "done"]
            /\ IF raised
               THEN disc_out' = DiscoverFinish(<<>>, TRUE, <<>>)
               ELSE LET r == DiscoverLoop(results, devices, fault, 1, <<>>)
                    IN  disc_out' = DiscoverFinish(r.discovered, r.exc, results)
    /\ UNCHANGED <<devices, last_provision, ctl>>

\* the retry with the protocol's defaults ends
DiscoverRetried(raised, results, fault) ==
    /\ disc.pc = "scan2"
    /\ fault \in 0..Len(results)
    /\ disc' = [disc EXCEPT !.pc = "done"]
    /\ IF raised
       THEN disc_out' = DiscoverFinish(<<>>, TRUE, <<>>)
       ELSE LET r == DiscoverLoop(results, devices, fault, 1, <<>>)
            IN  disc_out' = DiscoverFinish(r.discovered, r.exc, results)
    /\ UNCHANGED <<devices, last_provision, ctl>>

\* devices_scan answers: the candidates, or a 500 when discover raised
DevicesScanRespond ==
    /\ disc.pc = "done"
    /\ disc' = DiscIdle
    /\ disc_out' = NoOutcome
    /\ UNCHANGED <<devices, last_provision, ctl>>

---------------------------------------------------------------------------
(* Adapters *)

\* KasaAdapter.__init__.  plug: the SmartPlug object exists; data: the relay
\* state the plug object holds from its last update() ("none": it holds no
\* data, and reading is_on raises); dev: the device id the adapter was made
\* for (kept for the properties, the object does not know it).
KasaAdapter(ip, device_id) ==
    [ip |-> ip, plug |-> FALSE, data |-> "none", dev |-> device_id]

\* KasaAdapter.get_state past _ensure: is_on is read from the data the plug
\* object holds; a failing read is caught and answered with is_on = False.
kasa_get_state_uncaught(adapter) ==
    [raised |-> adapter.data = "none", is_on |-> adapter.data = "on"]

kasa_get_state(adapter) ==
    [raised |-> FALSE, is_on |-> adapter.data = "on"]

\* a new adapter on every call, the cache entry replaced
adapter_for_device_uncached(cache, ads, db, device_id) ==
    IF ~Truthy(db[device_id].ip)
    THEN [raised |-> TRUE, cache |-> cache, ads |-> ads, adapter |-> 0]
    ELSE [raised |-> FALSE,
          cache |-> (device_id :> (Len(ads) + 1)) @@ cache,
          ads |-> Append(ads, KasaAdapter(db[device_id].ip, device_id)),
          adapter |-> Len(ads) + 1]

\* DeviceManager._adapter_for_device
adapter_for_device(cache, ads, db, device_id) ==
    IF device_id \in DOMAIN cache
    THEN [raised |-> FALSE, cache |-> cache, ads |-> ads, adapter |-> cache[device_id]]
    ELSE IF ~Truthy(db[device_id].ip)
    THEN [raised |-> TRUE, cache |-> cache, ads |-> ads, adapter |-> 0]
    ELSE [raised |-> FALSE,
          cache |-> (device_id :> (Len(ads) + 1)) @@ cache,
          ads |-> Append(ads, KasaAdapter(db[device_id].ip, device_id)),
          adapter |-> Len(ads) + 1]

---------------------------------------------------------------------------
(* Control and state calls *)

\* what a call hands its caller.  cmd: how the command sent to the plug
\* ended ("ok", "fail": not delivered, "lost": carried out by the plug but
\* its answer never arrived); now: the timestamp the call took.
NoResult ==
    [kind |-> "none", error |-> None, is_on |-> FALSE, cmd |-> "none", now |-> NoTime]

IdleTask ==
    [pc |-> "idle", op |-> None, id |-> 0, adapter |-> 0, follows_on |-> FALSE,
     result |-> NoResult]

Raised(task, error, cmd) ==
    [task EXCEPT !.pc = "done",
                 !.result = [NoResult EXCEPT !.kind = "raised", !.error = error,
                                             !.cmd = cmd]]

Returned(task, is_on, cmd, now) ==
    [task EXCEPT !.pc = "done",
                 !.result = [NoResult EXCEPT !.kind = "returned", !.is_on = is_on,
                                             !.cmd = cmd, !.now = now]]

StatusOf(op) == IF op = "turn_on" THEN "on" ELSE "off"

\* the status written when the command is sent, before the plug answered
AfterEnsure_optimistic(task, ads, db, now) ==
    IF task.op = "get_state"
    THEN LET state == kasa_get_state(ads[task.adapter])
         IN  [task |-> Returned(task, state.is_on, "none", now),
              db |-> update_device_status(db, task.id,
                         IF state.is_on THEN "on" ELSE "off", now)]
    ELSE [task |-> [task EXCEPT !.pc = "cmd"],
          db |-> update_device_status(db, task.id, StatusOf(task.op), now)]

\* The rest of a call once _ensure is through, up to its next suspension:
\* get_state reads the state, writes it to the registry and returns;
\* turn_on / turn_off send the command and wait for the plug.
AfterEnsure(task, ads, db, now) ==
    IF task.op = "get_state"
    THEN LET state == kasa_get_state(ads[task.adapter])
         IN  IF state.raised
             THEN [task |-> Raised(task, "AdapterError", "none"), db |-> db]
             ELSE [task |-> Returned(task, state.is_on, "none", now),
                   db |-> update_device_status(db, task.id,
                              IF state.is_on THEN "on" ELSE "off", now)]
    ELSE [task |-> [task EXCEPT !.pc = "cmd"], db |-> db]

\* a call for a device the registry has: the adapter is resolved, then
\* _ensure builds the plug object and suspends in plug.update() when the
\* adapter has none yet
dm_found(op, device_id, follows_on, db, cache, ads, now) ==
    LET r == adapter_for_device(cache, ads, db, device_id)
        task == [IdleTask EXCEPT !.op = op, !.id = device_id,
                                 !.adapter = r.adapter, !.follows_on = follows_on]
    IN  IF r.raised
        THEN [task |-> Raised(task, "RuntimeError", "none"), db |-> db,
              cache |-> r.cache, ads |-> r.ads]
        ELSE IF ~r.ads[r.adapter].plug
        THEN [task |-> [task EXCEPT !.pc = "update"], db |-> db, cache |-> r.cache,
              ads |-> [r.ads EXCEPT ![r.adapter].plug = TRUE]]
        ELSE LET n == AfterEnsure(task, r.ads, db, now)
             IN  [task |-> n.task, db |-> n.db, cache |-> r.cache, ads |-> r.ads]

\* the device lookup not checked: the missing row is used as if it were one
dm_call_unchecked(op, device_id, follows_on, db, cache, ads, now) ==
    IF get_device_by_id(db, device_id) = 0
    THEN [task |-> Raised([IdleTask EXCEPT !.op = op, !.id = device_id],
                          "TypeError", "none"),
          db |-> db, cache |-> cache, ads |-> ads]
    ELSE dm_found(op, device_id, follows_on, db, cache, ads, now)

\* DeviceManager.turn_on / turn_off / get_state, from the call to its first
\* suspension
dm_call(op, device_id, follows_on, db, cache, ads, now) ==
    IF get_device_by_id(db, device_id) = 0
    THEN [task |-> Raised([IdleTask EXCEPT !.op = op, !.id = device_id],
                          "KeyError", "none"),
          db |-> db, cache |-> cache, ads |-> ads]
    ELSE dm_found(op, device_id, follows_on, db, cache, ads, now)

\* a failed command recorded by resetting the registry status
dm_command_done_resets_status(task, db, outcome, now) ==
    IF outcome = "ok"
    THEN [task |-> Returned(task, FALSE, outcome, now),
          db |-> update_device_status(db, task.id, StatusOf(task.op), now)]
    ELSE [task |-> Raised(task, "AdapterError", outcome),
          db |-> update_device_status(db, task.id, None, now)]

\* turn_on / turn_off once the plug's answer is in (or it is clear that none
\* will come)
dm_command_done(task, db, outcome, now) ==
    IF outcome = "ok"
    THEN [task |-> Returned(task, FALSE, outcome, now),
          db |-> update_device_status(db, task.id, StatusOf(task.op), now)]
    ELSE [task |-> Raised(task, "AdapterError", outcome), db |-> db]

Call(t, op, device_id, now) ==
    /\ Quiet
    /\ tasks[t].pc = "idle"
    /\ LET n == dm_call(op, device_id, op = "get_state" /\ seq_on = device_id,
                        devices, adapter_cache, adapters, now)
       IN  /\ tasks' = [tasks EXCEPT ![t] = n.task]
           /\ devices' = n.db
           /\ adapter_cache' = n.cache
           /\ adapters' = n.ads
    /\ seq_on' = 0
    /\ UNCHANGED <<last_provision, disc, disc_out, relay, login, web>>

\* plug.update() ends: ok, the plug object now holds the plug's state; not
\* ok, the failure is logged and the call goes on
UpdateDone(t, ok, now) ==
    /\ Quiet
    /\ tasks[t].pc = "update"
    /\ LET a == tasks[t].adapter
           ads == IF ok THEN [adapters EXCEPT ![a].data = relay[adapters[a].ip]]
                  ELSE adapters
           n == AfterEnsure(tasks[t], ads, devices, now)
       IN  /\ adapters' = ads
           /\ tasks' = [tasks EXCEPT ![t] = n.task]
           /\ devices' = n.db
    /\ UNCHANGED <<last_provision, disc, disc_out, adapter_cache, relay, seq_on,
                   login, web>>

\* the command sent by plug.turn_on() / plug.turn_off() ends
CommandDone(t, outcome, now) ==
    /\ Quiet
    /\ tasks[t].pc = "cmd"
    /\ LET a == tasks[t].adapter
           n == dm_command_done(tasks[t], devices, outcome, now)
       IN  /\ relay' = IF outcome \in {"ok", "lost"}
                       THEN [relay EXCEPT ![adapters[a].ip] = StatusOf(tasks[t].op)]
                       ELSE relay
           /\ tasks' = [tasks EXCEPT ![t] = n.task]
           /\ devices' = n.db
    /\ seq_on' = IF /\ outcome = "ok"
                    /\ tasks[t].op = "turn_on"
                    /\ \A u \in Tasks \ {t} : tasks[u].pc = "idle"
                 THEN tasks[t].id ELSE 0
    /\ UNCHANGED <<last_provision, disc, disc_out, adapters, adapter_cache,
                   login, web>>

\* the caller takes the result
Return(t) ==
    /\ tasks[t].pc = "done"
    /\ tasks' = [tasks EXCEPT ![t] = IdleTask]
    /\ UNCHANGED <<devices, last_provision, disc, disc_out, adapters, adapter_cache,
                   relay, seq_on, login, web>>

\* The command on the wire.  The plug object sends one query at a time
\* (python-kasa's protocol holds an asyncio.Lock for the whole of a query),
\* so a command waits at "cmd" until no other query of its plug object is
\* out; "sent": the request is out, "exec": the plug has carried it out and
\* its answer is on the way.  plug.update() holds the lock from the moment
\* the plug object is made, which is all of "update".
QueryOut == {"update", "sent", "exec"}

\* commands sent with no regard to the queries that are out
WireSend_unlocked(t) ==
    /\ Quiet
    /\ tasks[t].pc = "cmd"
    /\ tasks' = [tasks EXCEPT ![t].pc = "sent"]
    /\ UNCHANGED <<devices, last_provision, disc, disc_out, adapters, adapter_cache,
                   relay, seq_on, login, web>>

\* plug.turn_on() / plug.turn_off() gets the plug object's query lock and
\* sends its request
WireSend(t) ==
    /\ Quiet
    /\ tasks[t].pc = "cmd"
    /\ \A u \in Tasks \ {t} :
           tasks[u].adapter = tasks[t].adapter => tasks[u].pc \notin QueryOut
    /\ tasks' = [tasks EXCEPT ![t].pc = "sent"]
    /\ UNCHANGED <<devices, last_provision, disc, disc_out, adapters, adapter_cache,
                   relay, seq_on, login, web>>

\* the plug at the adapter's address takes the request and switches
WireExecute(t) ==
    /\ Quiet
    /\ tasks[t].pc = "sent"
    /\ relay' = [relay EXCEPT ![adapters[tasks[t].adapter].ip] = StatusOf(tasks[t].op)]
    /\ tasks' = [tasks EXCEPT ![t].pc = "exec"]
    /\ UNCHANGED <<devices, last_provision, disc, disc_out, adapters, adapter_cache,
                   seq_on, login, web>>

\* the query ends and the call runs on without suspending: the answer of a
\* command the plug carried out ("ok", or "lost" when it never arrives), or
\* the failure of a request that never reached the plug ("fail"); the
\* registry is written in the same step, before any other call runs
WireAnswer(t, outcome, now) ==
    /\ Quiet
    /\ \/ tasks[t].pc = "sent" /\ outcome = "fail"
       \/ tasks[t].pc = "exec" /\ outcome \in {"ok", "lost"}
    /\ LET n == dm_command_done(tasks[t], devices, outcome, now)
       IN  /\ tasks' = [tasks EXCEPT ![t] = n.task]
           /\ devices' = n.db
    /\ seq_on' = 0
    /\ UNCHANGED <<last_provision, disc, disc_out, adapters, adapter_cache, relay,
                   login, web>>


---------------------------------------------------------------------------
(* Provisioning *)

DiscoveryRecord(ip, mac, model) == [ip |-> ip, mac |-> mac, model |-> model]

\* a record that matches a registered device answered with that device's id
provision_deduplicated(db, discovery_record, owner_id, ok) ==
    LET model == IF Truthy(discovery_record.model) THEN discovery_record.model
                 ELSE "unknown"
        r == add_device(db, model, owner_id, discovery_record.ip,
                        discovery_record.mac, TRUE, ok)
        known == {i \in DOMAIN db : /\ db[i].ip = discovery_record.ip
                                   /\ db[i].mac = discovery_record.mac}
    IN  IF known # {} THEN [db |-> db, id |-> FirstId(known)]
        ELSE IF r.id # 0 /\ r.id # -1 THEN r ELSE [db |-> r.db, id |-> -1]

provision(db, discovery_record, owner_id, ok) ==
    LET model == IF Truthy(discovery_record.model) THEN discovery_record.model
                 ELSE "unknown"
        r == add_device(db, model, owner_id, discovery_record.ip,
                        discovery_record.mac, TRUE, ok)
    IN  IF r.id # 0 /\ r.id # -1 THEN r ELSE [db |-> r.db, id |-> -1]

Provision(discovery_record, owner_id, ok) ==
    /\ Quiet
    /\ LET r == provision(devices, discovery_record, owner_id, ok)
       IN  /\ devices' = r.db
           /\ last_provision' = r.id
    /\ UNCHANGED <<disc, disc_out, ctl>>

\* the records a caller hands to provision
ScanRecords ==
    {DiscoveryRecord(ip, mac, "HS100") : ip \in Addrs \cup {None}, mac \in Macs \cup {None}}
    \cup {DiscoveryRecord("10.0.0.1", None, None)}

\* the records provisioned where control is studied
PlugRecords == {DiscoveryRecord(ip, None, "HS100") : ip \in Addrs \cup {None}}

---------------------------------------------------------------------------
(* Login: utils.login_workflow over the users table *)

Usernames == {"alice", "bob"}
Passwords == {"Secret123!", "hunter2"}
Salts == {"salt1", "salt2"}

\* users.id of the account of a username
UserId(username) == IF username = "alice" THEN 7 ELSE 8

\* bcrypt.hashpw: the hash names its salt and is the digest of the password
\* under that salt
bcrypt_hashpw(password, salt) == [salt |-> salt, digest |-> <<salt, password>>]

\* bcrypt.checkpw: the password hashed again under the salt of the stored hash
bcrypt_checkpw(password, hashed) == bcrypt_hashpw(password, hashed.salt) = hashed

\* the users tables: the accounts signed up with, each under its username,
\* with the hash hash_signup_password made of its password
UsersTables ==
    UNION { [S -> {bcrypt_hashpw(p, salt) : p \in Passwords, salt \in Salts}] :
              S \in SUBSET Usernames }

\* what a login form holds for a field (None: the field is missing)
FormUsernames == Usernames \cup {"carol", None}
FormPasswords == Passwords \cup {None}

LoginFailMessage == "Invalid username or password, please try again."

NoLoginResult == [kind |-> "none", status |-> 0, info |-> None, error |-> None]

LoginIdle(users) ==
    [users |-> users, pc |-> "idle", username |-> None, password |-> None,
     fetched |-> FALSE, out |-> NoLoginResult]

\* password.encode() raises AttributeError when the form has no password
verify_login_password(password, stored_hash) ==
    IF password = None THEN [raised |-> TRUE, ok |-> FALSE]
    ELSE [raised |-> FALSE, ok |-> bcrypt_checkpw(password, stored_hash)]

\* fetched: the third query finds the row the first two found (the table is
\* a shared file; the row can be gone by then)
login_workflow(username, password, users, fetched) ==
    LET is_existing_username == username \in DOMAIN users
        v == IF username \in DOMAIN users
             THEN verify_login_password(password, users[username])
             ELSE [raised |-> FALSE, ok |-> FALSE]
    IN  IF v.raised
        THEN [kind |-> "raised", status |-> 0, info |-> None,
              error |-> "AttributeError"]
        ELSE IF ~is_existing_username \/ ~v.ok
        THEN [kind |-> "returned", status |-> -1, info |-> LoginFailMessage,
              error |-> None]
        ELSE IF ~fetched
        THEN [kind |-> "returned", status |-> -1, info |-> LoginFailMessage,
              error |-> None]
        ELSE [kind |-> "returned", status |-> 0, info |-> UserId(username),
              error |-> None]

\* POST /login: the form is read and login_workflow runs to its end
LoginPost(username, password, fetched) ==
    /\ login.pc = "idle"
    /\ login' = [login EXCEPT !.pc = "done", !.username = username,
                              !.password = password, !.fetched = fetched,
                              !.out = login_workflow(username, password,
                                                     login.users, fetched)]
    /\ UNCHANGED <<devices, last_provision, disc, disc_out, adapters, adapter_cache,
                   tasks, relay, seq_on, web>>

\* the login handler answers: a redirect, the login page with the message,
\* or a 500 when login_workflow raised
LoginRespond ==
    /\ login.pc = "done"
    /\ login' = LoginIdle(login.users)
    /\ UNCHANGED <<devices, last_provision, disc, disc_out, adapters, adapter_cache,
                   tasks, relay, seq_on, web>>

---------------------------------------------------------------------------
(* The web layer: the routes that switch a plug *)

\* the auth id of a session nobody is logged in to
Anonymous == 0

\* the user ids sessions are bound to at login
WebUsers == {7, 8}

\* the address of the plug the legacy routes look for (config.json)
Hs100Addr == "10.0.0.1"

\* a request to /devices/<id>/on or /off: whose session it came with, and
\* the status code of its rejection (0: not rejected)
NoRequest == [pc |-> "idle", user |-> Anonymous, op |-> None, id |-> 0, code |-> 0]

\* a request to /on or /off
NoLegacy == [pc |-> "idle", user |-> Anonymous, op |-> None]

WebIdle == [req |-> [t \in Tasks |-> NoRequest], legacy |-> NoLegacy]

\* login_required, then _ensure_device_owner: the status code the request is
\* rejected with, 0 when it passes
ensure_device_owner(db, user, device_id) ==
    IF user = Anonymous THEN 401
    ELSE IF get_device_by_id(db, device_id) = 0 THEN 404
    ELSE IF db[device_id].owner_id # user THEN 403
    ELSE 0

\* a POST to /devices/<device_id>/on or /off arrives with its session
WebRequest(t, user, op, device_id) ==
    /\ web.req[t].pc = "idle"
    /\ tasks[t].pc = "idle"
    /\ web' = [web EXCEPT !.req[t] = [pc |-> "arrived", user |-> user, op |-> op,
                                      id |-> device_id, code |-> 0]]
    /\ UNCHANGED <<devices, last_provision, disc, disc_out, adapters, adapter_cache,
                   tasks, relay, seq_on, login>>

\* device_turn_on / device_turn_off up to the first suspension: the request
\* is rejected, or the device manager is called
WebHandle(t, now) ==
    /\ web.req[t].pc = "arrived"
    /\ tasks[t].pc = "idle"
    /\ LET r == web.req[t]
           code == ensure_device_owner(devices, r.user, r.id)
       IN  IF code # 0
           THEN /\ web' = [web EXCEPT !.req[t].pc = "rejected", !.req[t].code = code]
                /\ UNCHANGED <<devices, last_provision, disc, disc_out, adapters,
                               adapter_cache, tasks, relay, seq_on, login>>
           ELSE Call(t, r.op, r.id, now)

\* the handler answers: the rejection, {"status": "ok"}, or a 500 when the
\* device manager raised
WebAnswer(t) ==
    /\ \/ web.req[t].pc = "rejected"
       \/ web.req[t].pc = "arrived" /\ tasks[t].pc = "done"
    /\ web' = [web EXCEPT !.req[t] = NoRequest]
    /\ tasks' = [tasks EXCEPT ![t] = IdleTask]
    /\ UNCHANGED <<devices, last_provision, disc, disc_out, adapters, adapter_cache,
                   relay, seq_on, login>>

\* GET /on or /off: turn_on_hs100 / turn_off_hs100 look for the plug (found:
\* get_hs100_device returns a Device) and send it the command
LegacyRequest(user, op, found) ==
    /\ web.legacy.pc = "idle"
    /\ web' = [web EXCEPT !.legacy = IF found
                                     THEN [pc |-> "cmd", user |-> user, op |-> op]
                                     ELSE NoLegacy]
    /\ UNCHANGED <<devices, last_provision, disc, disc_out, adapters, adapter_cache,
                   tasks, relay, seq_on, login>>

\* the command of a legacy route ends
LegacyDone(outcome) ==
    /\ web.legacy.pc = "cmd"
    /\ relay' = IF outcome \in {"ok", "lost"}
                THEN [relay EXCEPT ![Hs100Addr] = StatusOf(web.legacy.op)]
                ELSE relay
    /\ web' = [web EXCEPT !.legacy = NoLegacy]
    /\ UNCHANGED <<devices, last_provision, disc, disc_out, adapters, adapter_cache,
                   tasks, seq_on, login>>

---------------------------------------------------------------------------
(* Control: provisioning and the control and state calls *)

Init ==
    /\ devices = <<>>
    /\ last_provision = 0
    /\ disc = DiscIdle
    /\ disc_out = NoOutcome
    /\ adapters = <<>>
    /\ adapter_cache = <<>>
    /\ tasks = [t \in Tasks |-> IdleTask]
    /\ relay \in [Addrs -> {"on", "off"}]
    /\ seq_on = 0
    /\ login = LoginIdle(<<>>)
    /\ web = WebIdle

Next ==
    \/ /\ Len(devices) < MaxPlugs
       /\ \E rec \in PlugRecords, owner_id \in Owners, ok \in BOOLEAN :
              Provision(rec, owner_id, ok)
    \/ \E t \in Tasks, op \in Ops, device_id \in 1..(MaxPlugs + 1), now \in Times :
           Call(t, op, device_id, now)
    \/ \E t \in Tasks, ok \in BOOLEAN, now \in Times : UpdateDone(t, ok, now)
    \/ \E t \in Tasks, outcome \in {"ok", "fail", "lost"}, now \in Times :
           CommandDone(t, outcome, now)
    \/ \E t \in Tasks : Return(t)

Spec == Init /\ [][Next]_vars

---------------------------------------------------------------------------
(* Control with the registry's own update interface *)

\* OneLightDB.update_device_info called on the shared registry, from outside
\* the device manager, to set or remove a device's address
EditDevice(device_id, ip) ==
    /\ Quiet
    /\ device_id \in DOMAIN devices
    /\ devices' = update_device_info(devices, device_id, [ip |-> ip])
    /\ UNCHANGED <<last_provision, disc, disc_out, ctl>>

ENext ==
    \/ /\ Len(devices) < MaxPlugs
       /\ \E rec \in PlugRecords, owner_id \in Owners, ok \in BOOLEAN :
              Provision(rec, owner_id, ok)
    \/ \E t \in SerialTasks, op \in Ops, device_id \in 1..(MaxPlugs + 1), now \in Times :
           Call(t, op, device_id, now)
    \/ \E t \in SerialTasks, ok \in BOOLEAN, now \in Times : UpdateDone(t, ok, now)
    \/ \E t \in SerialTasks, outcome \in {"ok", "fail", "lost"}, now \in Times :
           CommandDone(t, outcome, now)
    \/ \E t \in SerialTasks : Return(t)
    \/ \E device_id \in 1..MaxPlugs, ip \in Addrs \cup {None} : EditDevice(device_id, ip)

SpecEdit == Init /\ [][ENext]_vars

---------------------------------------------------------------------------
(* Concurrent switch calls, with the command followed on the wire *)

WireNext ==
    \/ /\ Len(devices) < MaxPlugs
       /\ \E rec \in PlugRecords, owner_id \in Owners, ok \in BOOLEAN :
              Provision(rec, owner_id, ok)
    \/ \E t \in Tasks, op \in Switches, device_id \in 1..MaxPlugs, now \in Times :
           Call(t, op, device_id, now)
    \/ \E t \in Tasks, ok \in BOOLEAN, now \in Times : UpdateDone(t, ok, now)
    \/ \E t \in Tasks : WireSend(t)
    \/ \E t \in Tasks : WireExecute(t)
    \/ \E t \in Tasks, outcome \in {"ok", "fail", "lost"}, now \in Times :
           WireAnswer(t, outcome, now)
    \/ \E t \in Tasks : Return(t)

SpecWire == Init /\ [][WireNext]_vars

---------------------------------------------------------------------------
(* The life of a registered device: every operation of the device manager *)

\* a host where the resolver finds a broadcast address, and one without
\* netifaces
LifecycleEnvs ==
    {[netifaces |-> n, gateway_len |-> 2, ipv4 |-> TRUE, broadcast |-> TRUE] :
        n \in BOOLEAN}

\* no response, or the flat response of one plug
LifecycleScans ==
    {<<>>} \cup {<<Response(ip, "dict", PhysMac(ip), "HS100", "absent", None, None, 0)>> :
                    ip \in Addrs}

LNext ==
    \/ /\ Len(devices) < MaxPlugs
       /\ \E rec \in PlugRecords, owner_id \in Owners, ok \in BOOLEAN :
              Provision(rec, owner_id, ok)
    \/ \E t \in SerialTasks, op \in Ops, device_id \in 1..(MaxPlugs + 1), now \in Times :
           Call(t, op, device_id, now)
    \/ \E t \in SerialTasks, ok \in BOOLEAN, now \in Times : UpdateDone(t, ok, now)
    \/ \E t \in SerialTasks, outcome \in {"ok", "fail", "lost"}, now \in Times :
           CommandDone(t, outcome, now)
    \/ \E t \in SerialTasks : Return(t)
    \/ \E env \in LifecycleEnvs : DiscoverStart(env)
    \/ DiscoverSend
    \/ \E raised \in BOOLEAN, results \in LifecycleScans, fault \in 0..1 :
           DiscoverScanned(raised, results, fault)
    \/ \E raised \in BOOLEAN, results \in LifecycleScans, fault \in 0..1 :
           DiscoverRetried(raised, results, fault)
    \/ DevicesScanRespond

SpecLifecycle == Init /\ [][LNext]_vars

---------------------------------------------------------------------------
(* The web layer over the device manager *)

WebNext ==
    \/ /\ Len(devices) < MaxPlugs
       /\ \E rec \in PlugRecords, owner_id \in WebUsers, ok \in BOOLEAN :
              Provision(rec, owner_id, ok)
    \/ \E t \in SerialTasks, user \in WebUsers \cup {Anonymous}, op \in Switches,
          device_id \in 1..(MaxPlugs + 1) : WebRequest(t, user, op, device_id)
    \/ \E t \in SerialTasks, now \in Times : WebHandle(t, now)
    \/ \E t \in SerialTasks, ok \in BOOLEAN, now \in Times : UpdateDone(t, ok, now)
    \/ \E t \in SerialTasks, outcome \in {"ok", "fail", "lost"}, now \in Times :
           CommandDone(t, outcome, now)
    \/ \E t \in SerialTasks : WebAnswer(t)
    \/ \E user \in WebUsers \cup {Anonymous}, op \in Switches, found \in BOOLEAN :
           LegacyRequest(user, op, found)
    \/ \E outcome \in {"ok", "fail", "lost"} : LegacyDone(outcome)

SpecWeb == Init /\ [][WebNext]_vars

---------------------------------------------------------------------------
(* Registration: devices_register, for the user of the session *)

RegisterNext ==
    /\ Len(devices) < MaxDevices
    /\ \E rec \in ScanRecords, owner_id \in WebUsers, ok \in BOOLEAN :
           Provision(rec, owner_id, ok)

SpecRegister == Init /\ [][RegisterNext]_vars

---------------------------------------------------------------------------
(* Login requests over every users table *)

LoginInit ==
    /\ devices = <<>>
    /\ last_provision = 0
    /\ disc = DiscIdle
    /\ disc_out = NoOutcome
    /\ adapters = <<>>
    /\ adapter_cache = <<>>
    /\ tasks = [t \in Tasks |-> IdleTask]
    /\ relay = [ip \in Addrs |-> "off"]
    /\ seq_on = 0
    /\ login \in {LoginIdle(users) : users \in UsersTables}
    /\ web = WebIdle

LoginNext ==
    \/ \E username \in FormUsernames, password \in FormPasswords, fetched \in BOOLEAN :
           LoginPost(username, password, fetched)
    \/ LoginRespond

SpecLogin == LoginInit /\ [][LoginNext]_vars

---------------------------------------------------------------------------
(* The discovery engine with provisioning *)

DInit ==
    /\ devices = <<>>
    /\ last_provision = 0
    /\ disc = DiscIdle
    /\ disc_out = NoOutcome
    /\ adapters = <<>>
    /\ adapter_cache = <<>>
    /\ tasks = [t \in Tasks |-> IdleTask]
    /\ relay = [ip \in Addrs |-> "off"]
    /\ seq_on = 0
    /\ login = LoginIdle(<<>>)
    /\ web = WebIdle

DNext ==
    \/ \E env \in NetEnvs : DiscoverStart(env)
    \/ DiscoverSend
    \/ \E raised \in BOOLEAN, results \in ScanResults, fault \in 0..2 :
           DiscoverScanned(raised, results, fault)
    \/ \E raised \in BOOLEAN, results \in ScanResults, fault \in 0..2 :
           DiscoverRetried(raised, results, fault)
    \/ DevicesScanRespond
    \/ /\ Len(devices) < MaxDevices
       /\ \E rec \in ScanRecords, owner_id \in Owners, ok \in BOOLEAN :
              Provision(rec, owner_id, ok)

SpecDiscovery == DInit /\ [][DNext]_vars

---------------------------------------------------------------------------
(* Properties of discovery *)

RegisteredMatch(rec, db) ==
    \E i \in DOMAIN db :
        \/ (Truthy(rec.ip) /\ db[i].ip = rec.ip)
        \/ (Truthy(rec.mac) /\ db[i].mac = rec.mac)

\* C1: when discover hands its result to the caller, no record in it has the
\* address of a registered device or the hardware id (mac) of a registered
\* device.
C1_NoRegisteredDeviceReturned ==
    disc.pc = "done" =>
        \A k \in DOMAIN disc_out.value : ~RegisteredMatch(disc_out.value[k], devices)

\* two devices answered, no exception: one is registered and was dropped, the
\* other is returned
C1_Witness ==
    /\ disc.pc = "done"
    /\ disc_out.kind = "returned"
    /\ ~disc_out.exc
    /\ Len(disc_out.raw) = 2
    /\ Len(disc_out.value) = 1
    /\ \E k \in DOMAIN disc_out.raw :
           /\ get_device_by_ip(devices, disc_out.raw[k].ip) = 0
           /\ get_device_by_mac(devices, Normalize(disc_out.raw[k]).mac) # 0

\* C2: discover never propagates an exception to its caller: every call ends
\* by returning a sequence.
C2_DiscoverNeverRaises == disc_out.kind # "raised"

\* C3: the registry holds exactly the device provisioned from the record of
\* one responding device; a discover that receives that same raw response
\* (and meets no exception) returns the empty list.
C3_ProvisionedDeviceIsDeduped ==
    ( /\ disc.pc = "done"
      /\ ~disc_out.exc
      /\ Len(disc_out.raw) = 1
      /\ Len(devices) = 1
      /\ last_provision = 1
      /\ LET n == Normalize(disc_out.raw[1])
         IN  /\ ~n.raised
             /\ devices[1].ip = disc_out.raw[1].ip
             /\ devices[1].mac = n.mac
             /\ devices[1].model = (IF Truthy(n.model) THEN n.model ELSE "unknown") )
    => (disc_out.kind = "returned" /\ disc_out.value = <<>>)

\* C4: when an exception occurred during a discovery run, the sequence
\* discover returns is empty: no record accepted before the exception is
\* returned.
C4_ExceptionGivesEmptyResult ==
    (disc.pc = "done" /\ disc_out.exc /\ disc_out.kind = "returned")
        => disc_out.value = <<>>

\* the raw responses of a mapping that no registered device matches, in order
RECURSIVE Unregistered(_, _)
Unregistered(raw, db) ==
    IF raw = <<>> THEN <<>>
    ELSE LET info == Head(raw)
             rest == Unregistered(Tail(raw), db)
         IN  IF RegisteredMatch([ip |-> info.ip, mac |-> Normalize(info).mac], db)
             THEN rest ELSE <<info>> \o rest

C12_AtMostTwoScans ==
    [][ disc' # disc =>
          \/ disc.pc = "idle" /\ disc'.pc = "resolved" /\ Len(disc'.scans) = 0
          \/ disc.pc = "resolved" /\ disc'.pc = "scan1" /\ Len(disc'.scans) = 1
          \/ disc.pc = "scan1" /\ disc'.pc = "scan2" /\ Len(disc'.scans) = 2
          \/ disc.pc \in {"scan1", "scan2"} /\ disc'.pc = "done"
                 /\ disc'.scans = disc.scans
          \/ disc.pc = "done" /\ disc'.pc = "idle" ]_vars

\* no device answered either scan, and the call has ended after the second
C12_Witness ==
    /\ disc.pc = "done"
    /\ Len(disc.scans) = 2
    /\ disc.first = 0
    /\ disc_out.raw = <<>>
    /\ ~disc_out.exc

\* C11: a retry is issued only after a first scan that returned zero
\* responses; when the retry finds devices of which at least one is not
\* registered (and no exception occurs), discover returns one record per
\* unregistered responder of the retry, in order: not an empty list.
C11_RetryResultsReturned ==
    /\ Len(disc.scans) = 2 => disc.first = 0
    /\ ( /\ disc.pc = "done"
         /\ Len(disc.scans) = 2
         /\ ~disc_out.exc
         /\ Unregistered(disc_out.raw, devices) # <<>> ) =>
           /\ disc_out.kind = "returned"
           /\ disc_out.value # <<>>
           /\ Len(disc_out.value) = Len(Unregistered(disc_out.raw, devices))
           /\ \A k \in DOMAIN disc_out.value :
                  disc_out.value[k].ip = Unregistered(disc_out.raw, devices)[k].ip

\* the retry brought two responses, one of a registered device, and the
\* record of the other was returned
C11_Witness ==
    /\ disc.pc = "done"
    /\ disc.scans = <<"target", "default">>
    /\ disc.first = 0
    /\ ~disc_out.exc
    /\ Len(disc_out.raw) = 2
    /\ Len(disc_out.value) = 1
    /\ disc_out.kind = "returned"

\* the value a mapping response carries for a field: the flat one when
\* present, otherwise the one of its system-info mapping, if it has one
Carried(flat, sys, nested) ==
    IF flat # None THEN flat ELSE IF sys = "map" THEN nested ELSE None

---------------------------------------------------------------------------
(* Properties of provisioning *)

\* the model name provision stores for a record
StoredModel(rec) == IF Truthy(rec.model) THEN rec.model ELSE "unknown"

\* device i was provisioned from this record for this owner
ProvisionedFrom(db, i, rec, owner_id) ==
    /\ db[i].ip = rec.ip
    /\ db[i].mac = rec.mac
    /\ db[i].model = StoredModel(rec)
    /\ db[i].owner_id = owner_id
    /\ db[i].provisioned

\* C13: provision called (the insert accepted) with a record and an owner
\* from which a device is registered already adds one more device and returns
\* its id, which no device had before: the registry then holds two devices of
\* that record and owner under two distinct ids.
C13_ProvisionTwiceGivesTwoDevices ==
    [][ \A rec \in ScanRecords \cup PlugRecords, owner_id \in Owners \cup WebUsers :
          ( /\ Provision(rec, owner_id, TRUE)
            /\ \E i \in DOMAIN devices : ProvisionedFrom(devices, i, rec, owner_id) ) =>
              /\ Len(devices') = Len(devices) + 1
              /\ last_provision' = Len(devices')
              /\ last_provision' \notin DOMAIN devices
              /\ \A i \in DOMAIN devices : devices'[i] = devices[i]
              /\ ProvisionedFrom(devices', last_provision', rec, owner_id)
              /\ \E i \in DOMAIN devices :
                     /\ i # last_provision'
                     /\ ProvisionedFrom(devices', i, rec, owner_id) ]_vars

\* two devices of one record (address and hardware id present) and one owner
\* are registered, the second provision having returned the second id
C13_Witness ==
    /\ Len(devices) = 2
    /\ last_provision = 2
    /\ Truthy(devices[1].ip)
    /\ Truthy(devices[1].mac)
    /\ devices[1].ip = devices[2].ip
    /\ devices[1].mac = devices[2].mac
    /\ devices[1].owner_id = devices[2].owner_id

\* C14: a provision whose insert the registry rejects returns -1 and leaves
\* the registry as it was; a provision whose insert is accepted returns the
\* id of the new row, a positive number, and that row is the record's,
\* provisioned, owned by the given owner and of no known status.
C14_ProvisionSentinelOrStored ==
    [][ \A rec \in ScanRecords \cup PlugRecords, owner_id \in Owners \cup WebUsers,
           ok \in BOOLEAN :
          Provision(rec, owner_id, ok) =>
              IF ok
              THEN /\ last_provision' > 0
                   /\ last_provision' = Len(devices) + 1
                   /\ DOMAIN devices' = 1..last_provision'
                   /\ \A i \in DOMAIN devices : devices'[i] = devices[i]
                   /\ ProvisionedFrom(devices', last_provision', rec, owner_id)
                   /\ devices'[last_provision'].status = None
              ELSE /\ last_provision' = -1
                   /\ devices' = devices ]_vars

\* a rejected insert was answered with -1 while the device user 8 registered
\* earlier is kept
C14_Witness ==
    /\ last_provision = -1
    /\ Len(devices) = 1
    /\ devices[1].provisioned
    /\ devices[1].owner_id = 8
    /\ devices[1].status = None

---------------------------------------------------------------------------
(* Properties of login *)

\* C18: login_workflow returns (0, id of the user's record) exactly when the
\* username is in the users table, the password of the form matches the
\* stored hash and the record is fetched; in every other case it returns -1
\* with the one message.
C18_LoginResult ==
    login.pc = "done" =>
        /\ login.out.kind = "returned"
        /\ IF /\ login.username \in DOMAIN login.users
              /\ login.password \in Passwords
              /\ \E salt \in Salts :
                     login.users[login.username] = bcrypt_hashpw(login.password, salt)
              /\ login.fetched
           THEN login.out.status = 0 /\ login.out.info = UserId(login.username)
           ELSE login.out.status = -1 /\ login.out.info = LoginFailMessage

---------------------------------------------------------------------------
(* Properties of the web layer *)

\* C17: whenever a switch command is out to a plug, the request behind it
\* came with the session of a logged-in user, and that user is the owner of
\* the registered device the command is for.
C17_OnlyOwnersSwitch ==
    /\ \A t \in Tasks :
           tasks[t].pc = "cmd" =>
               /\ web.req[t].user # Anonymous
               /\ devices[tasks[t].id].owner_id = web.req[t].user
    /\ web.legacy.pc = "cmd" =>
           /\ web.legacy.user # Anonymous
           /\ \E i \in DOMAIN devices :
                  /\ devices[i].ip = Hs100Addr
                  /\ devices[i].owner_id = web.legacy.user

\* what does hold: the routes under /devices call the device manager, and so
\* send a command, only for the logged-in owner of the device
DeviceRoutesOnlyForOwner ==
    \A t \in Tasks :
        tasks[t].pc \in {"update", "cmd"} =>
            /\ web.req[t].user # Anonymous
            /\ devices[tasks[t].id].owner_id = web.req[t].user

---------------------------------------------------------------------------
(* Properties of control *)

\* the operation of the call task t makes or has just made in a step
StepOp(t) == IF tasks[t].pc = "idle" THEN tasks'[t].op ELSE tasks[t].op

\* C5: in turn_on and turn_off the registry is written only in the step in
\* which the adapter command has returned successfully; when the command
\* fails the call raises and the registry (status and last_seen of every
\* device) is left as it was.
C5_StatusOnlyAfterCommandSuccess ==
    [][ \A t \in Tasks :
          (tasks'[t] # tasks[t] /\ StepOp(t) \in Switches) =>
              /\ devices' # devices =>
                     /\ tasks[t].pc = "cmd"
                     /\ tasks'[t].pc = "done"
                     /\ tasks'[t].result.kind = "returned"
                     /\ tasks'[t].result.cmd = "ok"
              /\ (tasks'[t].pc = "done" /\ tasks'[t].result.cmd \in {"fail", "lost"}) =>
                     /\ tasks'[t].result.kind = "raised"
                     /\ devices' = devices ]_vars

\* a turn_off whose command failed has raised, the device still recorded on
C5_Witness ==
    \E t \in Tasks :
        /\ tasks[t].pc = "done"
        /\ tasks[t].op = "turn_off"
        /\ tasks[t].result.kind = "raised"
        /\ tasks[t].result.cmd = "fail"
        /\ devices[tasks[t].id].status = "on"

\* C6: a successful turn_on leaves the device's registry status 'on', a
\* successful turn_off leaves it 'off', and in both cases last_seen is the
\* time of the call.
C6_SuccessWritesStatusAndLastSeen ==
    \A t \in Tasks :
        (tasks[t].pc = "done" /\ tasks[t].op \in Switches
            /\ tasks[t].result.kind = "returned") =>
            /\ devices[tasks[t].id].status = StatusOf(tasks[t].op)
            /\ devices[tasks[t].id].last_seen = tasks[t].result.now

\* C7: a turn_on or turn_off call for an id the registry does not have ends
\* at once with KeyError (DeviceNotFound) and writes nothing to the registry.
C7_UnknownDeviceFailsWithoutWrite ==
    [][ \A t \in Tasks :
          ( /\ tasks[t].pc = "idle"
            /\ tasks'[t].pc # "idle"
            /\ tasks'[t].op \in Switches
            /\ tasks'[t].id \notin DOMAIN devices ) =>
              /\ tasks'[t].pc = "done"
              /\ tasks'[t].result.kind = "raised"
              /\ tasks'[t].result.error = "KeyError"
              /\ devices' = devices
              /\ adapters' = adapters ]_vars

\* turn_on for an unregistered id has raised KeyError while a registered
\* device keeps the status an earlier call gave it
C7_Witness ==
    \E t \in Tasks :
        /\ tasks[t].pc = "done"
        /\ tasks[t].op = "turn_on"
        /\ tasks[t].id \notin DOMAIN devices
        /\ tasks[t].result.error = "KeyError"
        /\ \E i \in DOMAIN devices : devices[i].status = "off"

\* a call starts in this step, for a registered device whose record has no
\* address
StartsWithoutAddress(t) ==
    /\ tasks[t].pc = "idle"
    /\ tasks'[t].pc # "idle"
    /\ tasks'[t].id \in DOMAIN devices
    /\ ~Truthy(devices[tasks'[t].id].ip)

FailsMissingAddress(t) ==
    /\ tasks'[t].pc = "done"
    /\ tasks'[t].result.kind = "raised"
    /\ tasks'[t].result.error = "RuntimeError"
    /\ adapter_cache' = adapter_cache
    /\ adapters' = adapters
    /\ devices' = devices

\* C15, as claimed: every control or state call made for a registered device
\* while its record has no address raises RuntimeError (MissingAddress) and
\* creates no cache entry.
C15_NoAddressAlwaysFails ==
    [][ \A t \in Tasks : StartsWithoutAddress(t) => FailsMissingAddress(t) ]_vars

\* What the code does: such a call raises RuntimeError and creates no
\* adapter and no cache entry when no adapter is cached for the device; when
\* one is cached (it was created while the record had an address) the call
\* goes on with that stale adapter and does not raise RuntimeError.
NoAddressFailsUnlessCached ==
    [][ \A t \in Tasks :
          StartsWithoutAddress(t) =>
              IF tasks'[t].id \in DOMAIN adapter_cache
              THEN /\ tasks'[t].adapter = adapter_cache[tasks'[t].id]
                   /\ tasks'[t].result.error # "RuntimeError"
                   /\ adapter_cache' = adapter_cache
                   /\ Len(adapters') = Len(adapters)
              ELSE FailsMissingAddress(t) ]_vars

C9_GetStateAfterTurnOnIsOn ==
    \A t \in Tasks :
        ( /\ tasks[t].pc = "done"
          /\ tasks[t].op = "get_state"
          /\ tasks[t].follows_on
          /\ tasks[t].result.kind = "returned"
          /\ adapters[tasks[t].adapter].data # "none" ) =>
            /\ tasks[t].result.is_on
            /\ devices[tasks[t].id].status = "on"

\* C10: at most one adapter is ever created per device id: a cache entry is
\* never removed or replaced, an adapter is created only by a control or
\* state call starting, and every call in flight holds the cached adapter of
\* its device.
C10_OneAdapterPerDevice ==
    [][ /\ \A id \in DOMAIN adapter_cache :
               id \in DOMAIN adapter_cache' /\ adapter_cache'[id] = adapter_cache[id]
        /\ \A a, b \in DOMAIN adapters' :
               adapters'[a].dev = adapters'[b].dev => a = b
        /\ Len(adapters') # Len(adapters) =>
               \E t \in Tasks : tasks[t].pc = "idle" /\ tasks'[t].pc # "idle"
        /\ \A t \in Tasks :
               tasks'[t].adapter # 0 =>
                   /\ tasks'[t].id \in DOMAIN adapter_cache'
                   /\ adapter_cache'[tasks'[t].id] = tasks'[t].adapter ]_vars

\* two calls for one device are in flight at once and hold the same adapter
C10_Witness ==
    \E t, u \in Tasks :
        /\ t # u
        /\ tasks[t].pc \in {"update", "cmd"}
        /\ tasks[u].pc \in {"update", "cmd"}
        /\ tasks[t].id = tasks[u].id
        /\ tasks[t].adapter = tasks[u].adapter
        /\ Len(adapters) = 1

---------------------------------------------------------------------------
(* Properties of concurrent calls *)

\* the device is the only registration of its address: no other adapter
\* reaches the same plug
OnlyRegistration(device_id) ==
    \A j \in DOMAIN devices :
        j # device_id => devices[j].ip # devices[device_id].ip

PastEnsure(u) ==
    /\ tasks[u].adapter # 0
    /\ \/ tasks[u].pc = "cmd"
       \/ tasks[u].pc = "done" /\ tasks[u].result.error # "RuntimeError"

\* C22: no command and no state read goes through an adapter's plug object
\* before the adapter's first plug.update() has finished: while a call
\* waits in that update, no other call on the same adapter is past _ensure.
C22_NothingBeforeFirstUpdate ==
    \A t \in Tasks :
        tasks[t].pc = "update"
        => \A u \in Tasks \ {t} :
               tasks[u].adapter = tasks[t].adapter => ~PastEnsure(u)

---------------------------------------------------------------------------
(* Properties of the adapter cache under registry updates *)

\* C23: a control or state call that resolves its adapter and sends to the
\* plug (the first plug.update() or a command) uses an adapter bound to the
\* address the device's registry record holds at that moment, also after
\* the record's address was changed or removed by update_device_info.
C23_AdapterBoundToStoredAddress ==
    [][ \A t \in Tasks :
          ( /\ tasks[t].pc = "idle"
            /\ tasks'[t].pc \in {"update", "cmd"} )
          => adapters'[tasks'[t].adapter].ip = devices'[tasks'[t].id].ip ]_vars

====
